---- MODULE Spec2Model ----
(***************************************************************************)
(* Model of airflow/api_connexion/endpoints/config_endpoint.py: the two    *)
(* request handlers get_config and get_value, the conversion of the        *)
(* configuration mapping into a Config object and its text and JSON        *)
(* renderers.                                                              *)
(*                                                                         *)
(* A Python str is a sequence of one-character strings, so that lower(),   *)
(* f-string formatting, str.join, JSON escaping and JSON parsing are       *)
(* computed character by character.  A Python dict is a sequence of        *)
(* <<key, value>> pairs in insertion order.  An optional argument is a     *)
(* sequence of zero (None) or one element.                                 *)
(***************************************************************************)
EXTENDS Integers, Sequences, FiniteSets, TLC

VARIABLES
    store,      \* the process-wide configuration store `conf`
    req,        \* the request routed to a handler and not yet answered
    resp,       \* the response to the last request, with what the handler did
    config,     \* renderer development: the Config snapshot being rendered
    rendered    \* renderer development: what the renderers produced for it

vars == <<store, req, resp, config, rendered>>

(***************************************************************************)
(* Bounds of the model.                                                    *)
(***************************************************************************)
\* sections of the store besides [webserver]
MaxSections == 1
\* options of one such section
MaxOptions == 2
\* entries of an Accept header
MaxAccept == 2
\* sections of a snapshot handed to the renderers
MaxSnapSections == 2
\* options of one section of such a snapshot
MaxSnapOptions == 2

(***************************************************************************)
(* Strings.                                                                *)
(***************************************************************************)
None == <<>>
Some(x) == <<x>>

RECURSIVE Concat(_)
\* the concatenation of a sequence of strings
Concat(ss) == IF ss = <<>> THEN <<>> ELSE Head(ss) \o Concat(Tail(ss))

RECURSIVE Join(_, _)
\* str.join: sep.join(ss)
Join(sep, ss) ==
    IF ss = <<>> THEN <<>>
    ELSE IF Len(ss) = 1 THEN ss[1]
    ELSE ss[1] \o sep \o Join(sep, Tail(ss))

UpperChars == <<"A","B","C","D","E","F","G","H","I","J","K","L","M",
                "N","O","P","Q","R","S","T","U","V","W","X","Y","Z">>
LowerChars == <<"a","b","c","d","e","f","g","h","i","j","k","l","m",
                "n","o","p","q","r","s","t","u","v","w","x","y","z">>

LowerChar(c) ==
    IF \E i \in DOMAIN UpperChars : UpperChars[i] = c
    THEN LowerChars[CHOOSE i \in DOMAIN UpperChars : UpperChars[i] = c]
    ELSE c

\* str.lower()
Lower(s) == [i \in DOMAIN s |-> LowerChar(s[i])]

LINE_SEP == <<"\n">>
HIDDEN == <<"<"," ","h","i","d","d","e","n"," ",">">>
NON_SENSITIVE_ONLY ==
    <<"n","o","n","-","s","e","n","s","i","t","i","v","e","-","o","n","l","y">>
WEBSERVER == <<"w","e","b","s","e","r","v","e","r">>
EXPOSE_CONFIG == <<"e","x","p","o","s","e","_","c","o","n","f","i","g">>

TEXT_PLAIN == "text/plain"
APPLICATION_JSON == "application/json"
APPLICATION_XML == "application/xml"
ANY_TYPE == "*/*"
NO_TYPE == "None"

(***************************************************************************)
(* The configuration store (airflow.configuration.conf).  Its mapping is a *)
(* dict of sections, each a dict of options; section and option names are  *)
(* stored in lower case.                                                   *)
(***************************************************************************)
RECURSIVE DictIndex(_, _)
\* the position of key k in dict d, 0 when absent
DictIndex(d, k) ==
    IF d = <<>> THEN 0
    ELSE IF d[Len(d)][1] = k THEN Len(d)
    ELSE DictIndex(SubSeq(d, 1, Len(d) - 1), k)

DictHas(d, k) == DictIndex(d, k) # 0
DictGet(d, k) == d[DictIndex(d, k)][2]
DictKeys(d) == [i \in DOMAIN d |-> d[i][1]]

\* conf.has_section(section): the section name as given
has_section(st, section) == DictHas(st.mapping, section)

\* conf.get(section, key): both names are lower-cased before the lookup
conf_get(st, section, key) ==
    DictGet(DictGet(st.mapping, Lower(section)), Lower(key))

\* conf.has_option(section, option): whether conf.get finds a value
has_option(st, section, option) ==
    /\ DictHas(st.mapping, Lower(section))
    /\ DictHas(DictGet(st.mapping, Lower(section)), Lower(option))

\* the truthy spellings of a boolean option
TrueWords == {<<"t">>, <<"t","r","u","e">>, <<"1">>}

\* conf.getboolean(section, key)
conf_getboolean(st, section, key) == Lower(conf_get(st, section, key)) \in TrueWords

\* conf.as_dict(display_source=False, display_sensitive=...): a fresh copy of
\* the mapping, the values of sensitive options replaced when they are not
\* to be displayed
as_dict(st, display_sensitive) ==
    [i \in DOMAIN st.mapping |->
        LET name == st.mapping[i][1]
            opts == st.mapping[i][2]
        IN  <<name,
              [j \in DOMAIN opts |->
                 IF ~display_sensitive /\ <<name, opts[j][1]>> \in st.sensitive
                 THEN <<opts[j][1], HIDDEN>>
                 ELSE opts[j]]>>]

(***************************************************************************)
(* Config objects (config_schema.Config, ConfigSection, ConfigOption).     *)
(***************************************************************************)
ConfigOption(key, value) == [key |-> key, value |-> value]
ConfigSection(name, options) == [name |-> name, options |-> options]
Config(sections) == [sections |-> sections]

\* _conf_dict_to_config: one ConfigSection per item of the dict, one
\* ConfigOption per item of its options, in iteration order
_conf_dict_to_config(conf_dict) ==
    Config([i \in DOMAIN conf_dict |->
        ConfigSection(conf_dict[i][1],
            [j \in DOMAIN conf_dict[i][2] |->
                ConfigOption(conf_dict[i][2][j][1], conf_dict[i][2][j][2])])])

(***************************************************************************)
(* The text renderer.                                                      *)
(***************************************************************************)
\* f"{config_option.key} = {config_option.value}"
_option_to_text(config_option) ==
    config_option.key \o <<" ", "=", " ">> \o config_option.value

\* f"[{name}]{LINE_SEP}{LINE_SEP.join(options)}{LINE_SEP}"
_section_to_text(config_section) ==
    <<"[">> \o config_section.name \o <<"]">> \o LINE_SEP
    \o Join(LINE_SEP, [i \in DOMAIN config_section.options |->
                          _option_to_text(config_section.options[i])])
    \o LINE_SEP

\* a variant of _config_to_text: "".join instead of LINE_SEP.join
_config_to_text_NoSeparator(cfg) ==
    Concat([i \in DOMAIN cfg.sections |-> _section_to_text(cfg.sections[i])])

\* LINE_SEP.join(_section_to_text(s) for s in config.sections)
_config_to_text(cfg) ==
    Join(LINE_SEP, [i \in DOMAIN cfg.sections |-> _section_to_text(cfg.sections[i])])

(***************************************************************************)
(* The JSON renderer: config_schema.dump, then json.dumps(..., indent=4).  *)
(* A JSON value is tagged: a string, an array of values or an object, the  *)
(* object a sequence of <<key, value>> members in order.                   *)
(***************************************************************************)
JStr(s) == [t |-> "str", v |-> s]
JArr(items) == [t |-> "arr", v |-> items]
JObj(members) == [t |-> "obj", v |-> members]

K_SECTIONS == <<"s","e","c","t","i","o","n","s">>
K_NAME == <<"n","a","m","e">>
K_OPTIONS == <<"o","p","t","i","o","n","s">>
K_KEY == <<"k","e","y">>
K_VALUE == <<"v","a","l","u","e">>

\* ConfigOptionSchema: key, value
OptionSchemaDump(o) == JObj(<< <<K_KEY, JStr(o.key)>>, <<K_VALUE, JStr(o.value)>> >>)

\* ConfigSectionSchema: name, options
SectionSchemaDump(s) ==
    JObj(<< <<K_NAME, JStr(s.name)>>,
            <<K_OPTIONS, JArr([i \in DOMAIN s.options |-> OptionSchemaDump(s.options[i])])>> >>)

\* ConfigSchema: sections
SchemaDump(cfg) ==
    JObj(<< <<K_SECTIONS,
              JArr([i \in DOMAIN cfg.sections |-> SectionSchemaDump(cfg.sections[i])])>> >>)

\* a variant of JsonEscapeChar: no character escaped
JsonEscapeChar_Raw(c) == <<c>>

\* json.dumps's escape of one character of a string
JsonEscapeChar(c) ==
    IF c = "\"" THEN <<"\\", "\"">>
    ELSE IF c = "\\" THEN <<"\\", "\\">>
    ELSE IF c = "\n" THEN <<"\\", "n">>
    ELSE <<c>>

\* json.dumps of a string
JsonString(s) ==
    <<"\"">> \o Concat([i \in DOMAIN s |-> JsonEscapeChar(s[i])]) \o <<"\"">>

JsonIndent == 4

\* the newline and indentation json.dumps(indent=4) writes at nesting `level`
NewlineIndent(level) == LINE_SEP \o [i \in 1..(JsonIndent * level) |-> " "]

RECURSIVE JsonDumps(_, _)
\* json.dumps(v, indent=4) of the value v at nesting `level`
JsonDumps(v, level) ==
    IF v.t = "str" THEN JsonString(v.v)
    ELSE IF v.t = "arr" THEN
        IF v.v = <<>> THEN <<"[", "]">>
        ELSE <<"[">> \o NewlineIndent(level + 1)
             \o Join(<<",">> \o NewlineIndent(level + 1),
                     [i \in DOMAIN v.v |-> JsonDumps(v.v[i], level + 1)])
             \o NewlineIndent(level) \o <<"]">>
    ELSE
        IF v.v = <<>> THEN <<"{", "}">>
        ELSE <<"{">> \o NewlineIndent(level + 1)
             \o Join(<<",">> \o NewlineIndent(level + 1),
                     [i \in DOMAIN v.v |->
                        JsonString(v.v[i][1]) \o <<":", " ">>
                        \o JsonDumps(v.v[i][2], level + 1)])
             \o NewlineIndent(level) \o <<"}">>

\* json.dumps(config_schema.dump(config), indent=4)
_config_to_json(cfg) == JsonDumps(SchemaDump(cfg), 0)

(***************************************************************************)
(* Reading JSON back (json.loads), used to state the round trip.           *)
(***************************************************************************)
ParseFail == [ok |-> FALSE, val |-> JStr(<<>>), pos |-> 0]
ParseOk(val, pos) == [ok |-> TRUE, val |-> val, pos |-> pos]

IsWhitespace(c) == c \in {" ", "\n", "\t", "\r"}

RECURSIVE SkipWhitespace(_, _)
SkipWhitespace(s, i) ==
    IF i <= Len(s) /\ IsWhitespace(s[i]) THEN SkipWhitespace(s, i + 1) ELSE i

RECURSIVE ParseChars(_, _, _)
\* the characters of a string literal whose opening quote precedes position i
ParseChars(s, i, acc) ==
    IF i > Len(s) THEN ParseFail
    ELSE IF s[i] = "\"" THEN ParseOk(acc, i + 1)
    ELSE IF s[i] = "\\" THEN
        IF i + 1 > Len(s) THEN ParseFail
        ELSE IF s[i + 1] = "n" THEN ParseChars(s, i + 2, Append(acc, "\n"))
        ELSE IF s[i + 1] \in {"\"", "\\", "/"} THEN ParseChars(s, i + 2, Append(acc, s[i + 1]))
        ELSE ParseFail
    ELSE IF s[i] = "\n" THEN ParseFail
    ELSE ParseChars(s, i + 1, Append(acc, s[i]))

RECURSIVE ParseValue(_, _)
RECURSIVE ParseElements(_, _, _)
RECURSIVE ParseMembers(_, _, _)

\* the JSON value that starts at position i, after whitespace
ParseValue(s, i) ==
    LET j == SkipWhitespace(s, i) IN
    IF j > Len(s) THEN ParseFail
    ELSE IF s[j] = "\"" THEN
        LET r == ParseChars(s, j + 1, <<>>) IN
        IF r.ok THEN ParseOk(JStr(r.val), r.pos) ELSE ParseFail
    ELSE IF s[j] = "[" THEN
        LET k == SkipWhitespace(s, j + 1) IN
        IF k <= Len(s) /\ s[k] = "]" THEN ParseOk(JArr(<<>>), k + 1)
        ELSE ParseElements(s, k, <<>>)
    ELSE IF s[j] = "{" THEN
        LET k == SkipWhitespace(s, j + 1) IN
        IF k <= Len(s) /\ s[k] = "}" THEN ParseOk(JObj(<<>>), k + 1)
        ELSE ParseMembers(s, k, <<>>)
    ELSE ParseFail

\* the rest of an array: value { "," value } "]"
ParseElements(s, i, acc) ==
    LET r == ParseValue(s, i) IN
    IF ~r.ok THEN ParseFail
    ELSE LET k == SkipWhitespace(s, r.pos) IN
         IF k > Len(s) THEN ParseFail
         ELSE IF s[k] = "," THEN ParseElements(s, k + 1, Append(acc, r.val))
         ELSE IF s[k] = "]" THEN ParseOk(JArr(Append(acc, r.val)), k + 1)
         ELSE ParseFail

\* the rest of an object: string ":" value { "," string ":" value } "}"
ParseMembers(s, i, acc) ==
    LET j == SkipWhitespace(s, i) IN
    IF j > Len(s) \/ s[j] # "\"" THEN ParseFail
    ELSE LET key == ParseChars(s, j + 1, <<>>) IN
         IF ~key.ok THEN ParseFail
         ELSE LET c == SkipWhitespace(s, key.pos) IN
              IF c > Len(s) \/ s[c] # ":" THEN ParseFail
              ELSE LET r == ParseValue(s, c + 1) IN
                   IF ~r.ok THEN ParseFail
                   ELSE LET k == SkipWhitespace(s, r.pos) IN
                        IF k > Len(s) THEN ParseFail
                        ELSE IF s[k] = "," THEN
                            ParseMembers(s, k + 1, Append(acc, <<key.val, r.val>>))
                        ELSE IF s[k] = "}" THEN
                            ParseOk(JObj(Append(acc, <<key.val, r.val>>)), k + 1)
                        ELSE ParseFail

\* json.loads(s): one value and nothing but whitespace after it
JsonLoads(s) ==
    LET r == ParseValue(s, 1) IN
    IF r.ok /\ SkipWhitespace(s, r.pos) = Len(s) + 1 THEN r ELSE ParseFail

MemberKeys(obj) == [i \in DOMAIN obj.v |-> obj.v[i][1]]
Member(obj, k) == DictGet(obj.v, k)

\* the parsed value has the schema's shape: field names, nesting and order
HasConfigShape(v) ==
    /\ v.t = "obj" /\ MemberKeys(v) = <<K_SECTIONS>>
    /\ Member(v, K_SECTIONS).t = "arr"
    /\ \A i \in DOMAIN Member(v, K_SECTIONS).v :
         LET sec == Member(v, K_SECTIONS).v[i] IN
         /\ sec.t = "obj" /\ MemberKeys(sec) = <<K_NAME, K_OPTIONS>>
         /\ Member(sec, K_NAME).t = "str"
         /\ Member(sec, K_OPTIONS).t = "arr"
         /\ \A j \in DOMAIN Member(sec, K_OPTIONS).v :
              LET opt == Member(sec, K_OPTIONS).v[j] IN
              /\ opt.t = "obj" /\ MemberKeys(opt) = <<K_KEY, K_VALUE>>
              /\ Member(opt, K_KEY).t = "str"
              /\ Member(opt, K_VALUE).t = "str"

\* the snapshot a parsed value of that shape describes
ConfigOfJson(v) ==
    Config([i \in DOMAIN Member(v, K_SECTIONS).v |->
        LET sec == Member(v, K_SECTIONS).v[i] IN
        ConfigSection(Member(sec, K_NAME).v,
            [j \in DOMAIN Member(sec, K_OPTIONS).v |->
                LET opt == Member(sec, K_OPTIONS).v[j] IN
                ConfigOption(Member(opt, K_KEY).v, Member(opt, K_VALUE).v)])])

(***************************************************************************)
(* Content negotiation: request.accept_mimetypes.best_match(keys), the     *)
(* best_match of werkzeug's Accept lists.  The parsed Accept header is a   *)
(* sequence of [mt, q] items, q in tenths, ordered by specificity and      *)
(* quality, best first.  An item of quality 0 is never a match; of two     *)
(* matches the more specific wins, then the higher quality, then the       *)
(* server type listed first.                                               *)
(***************************************************************************)
\* the serializer dict's keys, in insertion order
SerializerKeys == <<TEXT_PLAIN, APPLICATION_JSON>>

Specificity(mt) == IF mt = ANY_TYPE THEN 0 ELSE 2

ValueMatches(server_item, client_item) ==
    client_item = ANY_TYPE \/ client_item = server_item

NoMatch == [result |-> NO_TYPE, quality |-> -1, specificity |-> -1]

RECURSIVE ClientLoop(_, _, _)
\* the inner loop of best_match, over the client's items
ClientLoop(server_item, items, best) ==
    IF items = <<>> THEN best
    ELSE LET it == Head(items) IN
         IF ~ValueMatches(server_item, it.mt) THEN ClientLoop(server_item, Tail(items), best)
         ELSE IF it.q <= 0 \/ Specificity(it.mt) < best.specificity
              THEN ClientLoop(server_item, Tail(items), best)
         ELSE IF it.q > best.quality \/ Specificity(it.mt) > best.specificity
              THEN ClientLoop(server_item, Tail(items),
                              [result |-> server_item, quality |-> it.q,
                               specificity |-> Specificity(it.mt)])
         ELSE ClientLoop(server_item, Tail(items), best)

RECURSIVE ServerLoop(_, _, _)
\* the outer loop of best_match, over the server's types
ServerLoop(matches, accept, best) ==
    IF matches = <<>> THEN best
    ELSE ServerLoop(Tail(matches), accept, ClientLoop(Head(matches), accept, best))

\* a variant of best_match: text/plain as the default when nothing matches
best_match_DefaultText(accept, matches) ==
    LET best == ServerLoop(matches, accept, NoMatch)
    IN  IF best.result = NO_TYPE THEN TEXT_PLAIN ELSE best.result

\* request.accept_mimetypes.best_match(serializer.keys())
best_match(accept, matches) == ServerLoop(matches, accept, NoMatch).result

InSerializer(return_type) == \E i \in DOMAIN SerializerKeys : SerializerKeys[i] = return_type

\* a variant of Serialize: the text renderer whatever was negotiated
Serialize_AlwaysText(return_type, cfg) == _config_to_text(cfg)

\* serializer[return_type](config)
Serialize(return_type, cfg) ==
    IF return_type = TEXT_PLAIN THEN _config_to_text(cfg) ELSE _config_to_json(cfg)

(***************************************************************************)
(* The handlers.  A response records the request, the status, the          *)
(* Content-Type header, the body, the Config object that was rendered and  *)
(* the calls made on the configuration store, in order.                    *)
(***************************************************************************)
OK == 200
FORBIDDEN == 403
NOT_FOUND == 404
NOT_ACCEPTABLE == 406
INTERNAL_SERVER_ERROR == 500

Call(fn, section, option, display_sensitive) ==
    [fn |-> fn, section |-> section, option |-> option,
     display_sensitive |-> display_sensitive]

Response(op, accept, section, option, return_type, status, content_type, body, cfg, calls) ==
    [op |-> op, accept |-> accept, section |-> section, option |-> option,
     return_type |-> return_type, status |-> status, content_type |-> content_type,
     body |-> body, config |-> cfg, calls |-> calls]

\* return Response(status=HTTPStatus.NOT_ACCEPTABLE)
NotAcceptable(op, accept, section, option, return_type, calls) ==
    Response(op, accept, section, option, return_type, NOT_ACCEPTABLE,
             NO_TYPE, <<>>, Config(<<>>), calls)

\* raise NotFound(...)
NotFound(op, accept, section, option, return_type, calls) ==
    Response(op, accept, section, option, return_type, NOT_FOUND,
             NO_TYPE, <<>>, Config(<<>>), calls)

\* raise PermissionDenied(...)
PermissionDenied(op, accept, section, option, return_type, calls) ==
    Response(op, accept, section, option, return_type, FORBIDDEN,
             NO_TYPE, <<>>, Config(<<>>), calls)

\* an exception no handler catches (a KeyError of conf_dict[section])
Uncaught(op, accept, section, option, return_type, calls) ==
    Response(op, accept, section, option, return_type, INTERNAL_SERVER_ERROR,
             NO_TYPE, <<>>, Config(<<>>), calls)

\* return Response(config_text, headers={"Content-Type": return_type})
Rendered(op, accept, section, option, return_type, cfg, calls) ==
    Response(op, accept, section, option, return_type, OK,
             return_type, Serialize(return_type, cfg), cfg, calls)

ReadFlag == Call("get", WEBSERVER, EXPOSE_CONFIG, FALSE)
ReadFlagAsBoolean == Call("getboolean", WEBSERVER, EXPOSE_CONFIG, FALSE)

\* a variant of ExposeOfGetConfig: the flag compared as spelled, not lower-cased
ExposeOfGetConfig_AsSpelled(st) ==
    IF conf_get(st, WEBSERVER, EXPOSE_CONFIG) = NON_SENSITIVE_ONLY
    THEN [expose_config |-> TRUE, display_sensitive |-> FALSE,
          calls |-> <<ReadFlag>>]
    ELSE [expose_config |-> conf_getboolean(st, WEBSERVER, EXPOSE_CONFIG),
          display_sensitive |-> TRUE,
          calls |-> <<ReadFlag, ReadFlagAsBoolean>>]

\* get_config's reading of the exposure flag
ExposeOfGetConfig(st) ==
    IF Lower(conf_get(st, WEBSERVER, EXPOSE_CONFIG)) = NON_SENSITIVE_ONLY
    THEN [expose_config |-> TRUE, display_sensitive |-> FALSE,
          calls |-> <<ReadFlag>>]
    ELSE [expose_config |-> conf_getboolean(st, WEBSERVER, EXPOSE_CONFIG),
          display_sensitive |-> TRUE,
          calls |-> <<ReadFlag, ReadFlagAsBoolean>>]

\* the truth value of the optional `section` argument: None and "" are falsy
Truthy(section) == section # None /\ section[1] # <<>>

\* a variant of Narrow: conf_dict.clear() left out
Narrow_NoClear(conf_dict, section) == conf_dict

\* conf_section_value = conf_dict[section]; conf_dict.clear();
\* conf_dict[section] = conf_section_value
Narrow(conf_dict, section) == << <<section, DictGet(conf_dict, section)>> >>

\* a variant of SectionMissing: the existence check left out
SectionMissing_Unchecked(st, section) == FALSE

\* section and not conf.has_section(section)
SectionMissing(st, section) == Truthy(section) /\ ~has_section(st, section[1])

get_config(st, accept, section) ==
    LET return_type == best_match(accept, SerializerKeys)
        policy == ExposeOfGetConfig(st)
        has_section_call ==
            IF Truthy(section) THEN <<Call("has_section", section[1], <<>>, FALSE)>>
            ELSE <<>>
        as_dict_call == <<Call("as_dict", <<>>, <<>>, policy.display_sensitive)>>
    IN
    IF ~InSerializer(return_type) THEN
        NotAcceptable("get_config", accept, section, None, return_type, policy.calls)
    ELSE IF policy.expose_config THEN
        IF SectionMissing(st, section) THEN
            NotFound("get_config", accept, section, None, return_type,
                     policy.calls \o has_section_call)
        ELSE
            LET conf_dict == as_dict(st, policy.display_sensitive) IN
            IF Truthy(section) /\ ~DictHas(conf_dict, section[1]) THEN
                Uncaught("get_config", accept, section, None, return_type,
                         policy.calls \o has_section_call \o as_dict_call)
            ELSE
                Rendered("get_config", accept, section, None, return_type,
                         _conf_dict_to_config(IF Truthy(section)
                                              THEN Narrow(conf_dict, section[1])
                                              ELSE conf_dict),
                         policy.calls \o has_section_call \o as_dict_call)
    ELSE
        PermissionDenied("get_config", accept, section, None, return_type, policy.calls)

\* a variant of ExposeOfGetValue: the flag's text taken for its truth value
ExposeOfGetValue_TruthyText(st) ==
    [expose_config |-> conf_get(st, WEBSERVER, EXPOSE_CONFIG) # <<>>,
     calls |-> <<ReadFlag>>]

\* get_value's reading of the exposure flag
ExposeOfGetValue(st) ==
    IF Lower(conf_get(st, WEBSERVER, EXPOSE_CONFIG)) = NON_SENSITIVE_ONLY
    THEN [expose_config |-> TRUE, calls |-> <<ReadFlag>>]
    ELSE [expose_config |-> conf_getboolean(st, WEBSERVER, EXPOSE_CONFIG),
          calls |-> <<ReadFlag, ReadFlagAsBoolean>>]

\* a variant of IsSensitive: the names looked up as given, not lower-cased
IsSensitive_AsGiven(st, section, option) == <<section, option>> \in st.sensitive

\* (section.lower(), option.lower()) in conf.sensitive_config_values
IsSensitive(st, section, option) == <<Lower(section), Lower(option)>> \in st.sensitive

get_value(st, accept, section, option) ==
    LET return_type == best_match(accept, SerializerKeys)
        policy == ExposeOfGetValue(st)
    IN
    IF ~InSerializer(return_type) THEN
        NotAcceptable("get_value", accept, Some(section), Some(option), return_type,
                      policy.calls)
    ELSE IF policy.expose_config THEN
        IF ~has_option(st, section, option) THEN
            NotFound("get_value", accept, Some(section), Some(option), return_type,
                     policy.calls \o <<Call("has_option", section, option, FALSE)>>)
        ELSE
            LET hidden == IsSensitive(st, section, option)
                value == IF hidden THEN HIDDEN ELSE conf_get(st, section, option)
            IN  Rendered("get_value", accept, Some(section), Some(option), return_type,
                         Config(<<ConfigSection(section, <<ConfigOption(option, value)>>)>>),
                         policy.calls
                         \o <<Call("has_option", section, option, FALSE),
                              Call("sensitive_config_values", <<>>, <<>>, FALSE)>>
                         \o (IF hidden THEN <<>>
                             ELSE <<Call("get", section, option, FALSE)>>))
    ELSE
        PermissionDenied("get_value", accept, Some(section), Some(option), return_type,
                         policy.calls)

(***************************************************************************)
(* The stores and the requests of the model.                               *)
(***************************************************************************)
\* the sequences over S of length at most n without a repeated element
DistinctSeqs(S, n) ==
    {q \in UNION {[1..k -> S] : k \in 0..n} :
        \A i, j \in DOMAIN q : i # j => q[i] # q[j]}

SectionNames == {<<"a">>, <<"b">>}
OptionKeys == {<<"k", "1">>, <<"k", "2">>}

\* the value configured for an option
ValueOf(name, key) == <<"v">> \o name \o key

\* spellings of webserver.expose_config
FLAG_TRUE == <<"T","r","u","e">>
FLAG_FALSE == <<"F","a","l","s","e">>
FLAG_NSO_MIXED ==
    <<"N","o","n","-","S","e","n","s","i","t","i","v","e","-","O","n","l","y">>
Flags == {FLAG_TRUE, FLAG_FALSE, NON_SENSITIVE_ONLY, FLAG_NSO_MIXED}

\* conf.sensitive_config_values: lower-case (section, option) pairs
SensitivePairs == {<< <<"a">>, <<"k", "1">> >>}

SectionDict(name, keys) == <<name, [i \in DOMAIN keys |-> <<keys[i], ValueOf(name, keys[i])>>]>>

Mappings(flag) ==
    {<< <<WEBSERVER, << <<EXPOSE_CONFIG, flag>> >> >> >> \o rest :
        rest \in {[i \in DOMAIN names |-> SectionDict(names[i], keysOf[i])] :
                     names \in DistinctSeqs(SectionNames, MaxSections),
                     keysOf \in [1..MaxSections -> DistinctSeqs(OptionKeys, MaxOptions)]}}

Stores ==
    {[mapping |-> m, sensitive |-> sens] :
        m \in UNION {Mappings(flag) : flag \in Flags}, sens \in SUBSET SensitivePairs}

\* the items a client may list in its Accept header
AcceptItems ==
    {[mt |-> TEXT_PLAIN, q |-> 10], [mt |-> TEXT_PLAIN, q |-> 0],
     [mt |-> APPLICATION_JSON, q |-> 10],
     [mt |-> APPLICATION_XML, q |-> 10], [mt |-> ANY_TYPE, q |-> 5]}

\* item x is listed no later than item y
RanksBefore(x, y) ==
    \/ Specificity(x.mt) > Specificity(y.mt)
    \/ Specificity(x.mt) = Specificity(y.mt) /\ x.q >= y.q

AcceptHeaders ==
    {h \in DistinctSeqs(AcceptItems, MaxAccept) :
        \A i, j \in DOMAIN h : i < j => RanksBefore(h[i], h[j])}

\* the `section` argument of get_config
SectionArgs ==
    {None, Some(<<>>), Some(<<"a">>), Some(<<"A">>), Some(WEBSERVER)}

\* the arguments of get_value
ValueSections == {<<"a">>, <<"A">>}
ValueOptions == {<<"k", "1">>, <<"K", "1">>, <<"k", "2">>}

NoResponse ==
    Response("none", <<>>, None, None, NO_TYPE, 0, NO_TYPE, <<>>, Config(<<>>), <<>>)

NotRendered == [text |-> None, json |-> None]

(***************************************************************************)
(* The endpoint.  A request is routed to its handler with the arguments of *)
(* its URL; the handler reads the Accept header from the request context   *)
(* and the configuration from the store, and answers.                      *)
(***************************************************************************)
Request(op, section, option) == [op |-> op, section |-> section, option |-> option]
NoRequest == Request("none", None, None)

Init ==
    /\ store \in Stores
    /\ req = NoRequest
    /\ resp = NoResponse
    /\ config = Config(<<>>)
    /\ rendered = NotRendered

\* a request arrives: GET /config[?section=...] or
\* GET /config/section/{section}/option/{option}
Route ==
    /\ req = NoRequest
    /\ \/ \E section \in SectionArgs : req' = Request("get_config", section, None)
       \/ \E section \in ValueSections, option \in ValueOptions :
            req' = Request("get_value", Some(section), Some(option))
    /\ resp' = NoResponse
    /\ UNCHANGED <<store, config, rendered>>

\* a variant of GetConfig: as_dict hands out the store's own mapping, which
\* the narrowing then clears
GetConfig_SharedMapping ==
    /\ req.op = "get_config"
    /\ \E accept \in AcceptHeaders : resp' = get_config(store, accept, req.section)
    /\ req' = NoRequest
    /\ store' = IF resp'.status = OK /\ Truthy(req.section)
                THEN [store EXCEPT !.mapping = Narrow(store.mapping, req.section[1])]
                ELSE store
    /\ UNCHANGED <<config, rendered>>

\* the handler of GET /config
GetConfig ==
    /\ req.op = "get_config"
    /\ \E accept \in AcceptHeaders : resp' = get_config(store, accept, req.section)
    /\ req' = NoRequest
    /\ UNCHANGED <<store, config, rendered>>

\* the handler of GET /config/section/{section}/option/{option}
GetValue ==
    /\ req.op = "get_value"
    /\ \E accept \in AcceptHeaders :
         resp' = get_value(store, accept, req.section[1], req.option[1])
    /\ req' = NoRequest
    /\ UNCHANGED <<store, config, rendered>>

Next == Route \/ GetConfig \/ GetValue

Spec == Init /\ [][Next]_vars

(***************************************************************************)
(* The renderers alone, on any snapshot.                                   *)
(***************************************************************************)
SnapNames == {<<"a">>, <<"b">>}
SnapKeys == {<<"k", "1">>, <<"k", "2">>}
SnapValues == {<<"v", "1">>, <<"v", "2">>, <<"\"", "\\">>}

SnapOptions ==
    {[i \in DOMAIN keys |-> ConfigOption(keys[i], vals[i])] :
        keys \in DistinctSeqs(SnapKeys, MaxSnapOptions),
        vals \in [1..MaxSnapOptions -> SnapValues]}

Snapshots ==
    {Config([i \in DOMAIN names |-> ConfigSection(names[i], opts[i])]) :
        names \in DistinctSeqs(SnapNames, MaxSnapSections),
        opts \in [1..MaxSnapSections -> SnapOptions]}

InitRender ==
    /\ store = [mapping |-> << <<WEBSERVER, << <<EXPOSE_CONFIG, FLAG_FALSE>> >> >> >>,
                sensitive |-> {}]
    /\ req = NoRequest
    /\ resp = NoResponse
    /\ config \in Snapshots
    /\ rendered = NotRendered

RenderText ==
    /\ rendered.text = None
    /\ rendered' = [rendered EXCEPT !.text = Some(_config_to_text(config))]
    /\ UNCHANGED <<store, req, resp, config>>

RenderJson ==
    /\ rendered.json = None
    /\ rendered' = [rendered EXCEPT !.json = Some(_config_to_json(config))]
    /\ UNCHANGED <<store, req, resp, config>>

NextRender == RenderText \/ RenderJson

SpecRender == InitRender /\ [][NextRender]_vars

(***************************************************************************)
(* Properties.                                                             *)
(***************************************************************************)
\* a handler has answered
Handled == resp.op \in {"get_config", "get_value"}

\* the client lists, with a positive quality, a type one of the two
\* serializers can produce
Acceptable(accept) ==
    \E i \in DOMAIN accept :
        accept[i].q > 0 /\ accept[i].mt \in {TEXT_PLAIN, APPLICATION_JSON, ANY_TYPE}

\* the value of webserver.expose_config in the store
ExposeFlag == store.mapping[1][2][1][2]

NonSensitiveOnly == Lower(ExposeFlag) = NON_SENSITIVE_ONLY
FullyEnabled == ~NonSensitiveOnly /\ Lower(ExposeFlag) \in TrueWords
Disabled == ~NonSensitiveOnly /\ Lower(ExposeFlag) \notin TrueWords

\* the value the store's mapping holds for a (lower-case) section and option
StoredValue(section, option) ==
    LET i == CHOOSE i \in DOMAIN store.mapping : store.mapping[i][1] = section
        j == CHOOSE j \in DOMAIN store.mapping[i][2] : store.mapping[i][2][j][1] = option
    IN  store.mapping[i][2][j][2]

IsFlagRead(call) == call \in {ReadFlag, ReadFlagAsBoolean}

\* C1: with exposure disabled and a format negotiated, get_config and
\* get_value answer 403, never 404, whatever section or option is asked for,
\* and neither has_section nor has_option is consulted; under any flag they
\* are consulted only after the exposure flag has been read.
C1_DisabledIsForbidden ==
    /\ (Handled /\ Disabled /\ Acceptable(resp.accept)) =>
          /\ resp.status = FORBIDDEN
          /\ \A i \in DOMAIN resp.calls :
               resp.calls[i].fn \notin {"has_section", "has_option"}
    /\ \A i \in DOMAIN resp.calls :
          resp.calls[i].fn \in {"has_section", "has_option"} =>
              /\ i > 1 /\ resp.calls[1] = ReadFlag
              /\ ~Disabled

\* C1 happens: a value that does not exist is asked for while exposure is disabled
C1_Witness ==
    /\ resp.op = "get_value" /\ Disabled /\ Acceptable(resp.accept)
    /\ ~has_option(store, resp.section[1], resp.option[1])
    /\ resp.status = FORBIDDEN

\* C2 as claimed: a request no serializer can satisfy is answered 406 without
\* any read of the configuration store, the exposure flag included.
C2_NoStoreRead ==
    (Handled /\ ~Acceptable(resp.accept)) =>
        /\ resp.status = NOT_ACCEPTABLE
        /\ resp.calls = <<>>

\* C2 as amended: a request no serializer can satisfy is answered 406 with no
\* body, and the only reads of the store are those of the exposure flag
\* (which is read before the negotiation result is looked at).
C2_OnlyFlagRead ==
    (Handled /\ ~Acceptable(resp.accept)) =>
        /\ resp.status = NOT_ACCEPTABLE
        /\ resp.body = <<>>
        /\ resp.calls # <<>>
        /\ \A i \in DOMAIN resp.calls : IsFlagRead(resp.calls[i])

\* C2 happens: only application/xml is accepted, for a section-scoped get_config
C2_Witness ==
    /\ resp.op = "get_config" /\ Truthy(resp.section)
    /\ resp.accept = <<[mt |-> APPLICATION_XML, q |-> 10]>>
    /\ resp.status = NOT_ACCEPTABLE

\* C3: get_value, for an existing pair under either allowed mode and either
\* format, renders one option whose value is "< hidden >" exactly when
\* (lower(section), lower(option)) is registered sensitive, and the stored
\* value otherwise; the value of a sensitive pair is never fetched.
C3_HiddenIffSensitive ==
    /\ (resp.op = "get_value" /\ Acceptable(resp.accept) /\ ~Disabled
        /\ has_option(store, resp.section[1], resp.option[1])) => resp.status = OK
    /\ (resp.op = "get_value" /\ resp.status = OK) =>
        LET section == resp.section[1]
            option == resp.option[1]
            sensitive == <<Lower(section), Lower(option)>> \in store.sensitive
            value == resp.config.sections[1].options[1].value
        IN  /\ resp.config =
                 Config(<<ConfigSection(section, <<ConfigOption(option,
                     IF sensitive THEN HIDDEN
                     ELSE StoredValue(Lower(section), Lower(option)))>>)>>)
            /\ (value = HIDDEN) <=> sensitive
            /\ sensitive =>
                 \A i \in DOMAIN resp.calls :
                     resp.calls[i].fn = "get" => resp.calls[i] = ReadFlag

\* C3 happens: a sensitive pair is asked for in upper case with exposure fully enabled
C3_Witness ==
    /\ resp.op = "get_value" /\ resp.status = OK /\ FullyEnabled
    /\ resp.section = Some(<<"A">>) /\ resp.option = Some(<<"K", "1">>)
    /\ << <<"a">>, <<"k", "1">> >> \in store.sensitive
    /\ resp.config.sections[1].options[1].value = HIDDEN

\* the display_sensitive arguments of the as_dict calls of the response
AsDictCalls ==
    LET calls == SelectSeq(resp.calls, LAMBDA c : c.fn = "as_dict")
    IN  [i \in DOMAIN calls |-> calls[i].display_sensitive]

\* C4: a flag that lower-cases to "non-sensitive-only" allows access and
\* get_config asks the store with display_sensitive = FALSE; any other flag
\* allows access exactly when it is a boolean true, and then get_config asks
\* with display_sensitive = TRUE; a boolean false denies access; get_value
\* allows and denies by the same rule.
C4_ExposurePolicy ==
    (Handled /\ Acceptable(resp.accept)) =>
        /\ NonSensitiveOnly =>
            /\ resp.status \in {OK, NOT_FOUND}
            /\ (resp.op = "get_config" /\ resp.status = OK) => AsDictCalls = <<FALSE>>
        /\ FullyEnabled =>
            /\ resp.status \in {OK, NOT_FOUND}
            /\ (resp.op = "get_config" /\ resp.status = OK) => AsDictCalls = <<TRUE>>
        /\ Disabled => resp.status = FORBIDDEN /\ AsDictCalls = <<>>

\* C4 happens: the flag is spelled "Non-Sensitive-Only" and get_config answers
C4_Witness ==
    /\ resp.op = "get_config" /\ resp.status = OK
    /\ ExposeFlag = FLAG_NSO_MIXED
    /\ AsDictCalls = <<FALSE>>

\* the section of the snapshot is the section of the mapping, option by option
SameSection(config_section, item) ==
    /\ config_section.name = item[1]
    /\ Len(config_section.options) = Len(item[2])
    /\ \A j \in DOMAIN item[2] :
         /\ config_section.options[j].key = item[2][j][1]
         /\ config_section.options[j].value = item[2][j][2]

\* C5: get_config with a non-empty section the store has renders exactly that
\* section, with the options of the store's mapping in their order, and no
\* other section; without a section it renders every section of the mapping
\* in the mapping's order.
C5_SectionScope ==
    /\ (resp.op = "get_config" /\ Acceptable(resp.accept) /\ ~Disabled
        /\ Truthy(resp.section) /\ has_section(store, resp.section[1])) => resp.status = OK
    /\ (resp.op = "get_config" /\ resp.status = OK) =>
        LET mapping == as_dict(store, ~NonSensitiveOnly)
            sections == resp.config.sections
        IN  IF Truthy(resp.section)
            THEN /\ Len(sections) = 1
                 /\ sections[1].name = resp.section[1]
                 /\ \E i \in DOMAIN mapping : SameSection(sections[1], mapping[i])
            ELSE /\ Len(sections) = Len(mapping)
                 /\ \A i \in DOMAIN mapping : SameSection(sections[i], mapping[i])

\* C5 happens: section a, with two options, is asked for of a store with other sections
C5_Witness ==
    /\ resp.op = "get_config" /\ resp.status = OK
    /\ resp.section = Some(<<"a">>)
    /\ Len(store.mapping) >= 2
    /\ Len(resp.config.sections[1].options) = 2

\* C6: with a format negotiated and exposure allowed, get_config for a section
\* the store does not have and get_value for a pair the store does not have
\* answer 404 with no body, before the mapping or the value is read.
C6_NotFound ==
    (Handled /\ Acceptable(resp.accept) /\ ~Disabled) =>
        /\ (resp.op = "get_config" /\ Truthy(resp.section)
            /\ ~has_section(store, resp.section[1])) =>
              /\ resp.status = NOT_FOUND /\ resp.body = <<>>
              /\ \A i \in DOMAIN resp.calls :
                   IsFlagRead(resp.calls[i]) \/ resp.calls[i].fn = "has_section"
        /\ (resp.op = "get_value"
            /\ ~has_option(store, resp.section[1], resp.option[1])) =>
              /\ resp.status = NOT_FOUND /\ resp.body = <<>>
              /\ \A i \in DOMAIN resp.calls :
                   IsFlagRead(resp.calls[i]) \/ resp.calls[i].fn = "has_option"

\* C6 happens: an unknown section is asked for under non-sensitive-only exposure
C6_Witness ==
    /\ resp.op = "get_config" /\ NonSensitiveOnly
    /\ Truthy(resp.section) /\ ~has_section(store, resp.section[1])
    /\ resp.status = NOT_FOUND

\* the snapshot a: {k1: v1, k2: v2}
ExampleSnapshot ==
    Config(<<ConfigSection(<<"a">>,
        <<ConfigOption(<<"k", "1">>, <<"v", "1">>),
          ConfigOption(<<"k", "2">>, <<"v", "2">>)>>)>>)

\* "[a]\nk1 = v1\nk2 = v2\n"
ExampleText ==
    <<"[", "a", "]", "\n",
      "k", "1", " ", "=", " ", "v", "1", "\n",
      "k", "2", " ", "=", " ", "v", "2", "\n">>

\* "key = value" and a newline
ClaimedLine(config_option) ==
    config_option.key \o <<" ", "=", " ">> \o config_option.value \o <<"\n">>

\* "[name]" and a newline, then one line per option
ClaimedBlock(config_section) ==
    <<"[">> \o config_section.name \o <<"]", "\n">>
    \o Concat([i \in DOMAIN config_section.options |->
                  ClaimedLine(config_section.options[i])])

\* C7 as claimed: the text of a snapshot is the concatenation of its sections'
\* blocks, nothing between them, a block being "[name]\n" and then
\* "key = value\n" for each option.
C7_TextIsConcatenation ==
    rendered.text # None =>
        rendered.text[1] =
            Concat([i \in DOMAIN config.sections |-> ClaimedBlock(config.sections[i])])

\* C7 as amended: the text of a snapshot is its sections' blocks in order with
\* one newline between consecutive blocks (a blank line between sections); a
\* block is "[name]\n" and then "key = value\n" for each option, except that
\* a section without options gives "[name]\n\n"; a: {k1: v1, k2: v2} gives
\* exactly "[a]\nk1 = v1\nk2 = v2\n".
C7_TextBlocks ==
    rendered.text # None =>
        /\ rendered.text[1] =
             Concat([i \in DOMAIN config.sections |->
                 (IF i > 1 THEN <<"\n">> ELSE <<>>)
                 \o ClaimedBlock(config.sections[i])
                 \o (IF config.sections[i].options = <<>> THEN <<"\n">> ELSE <<>>)])
        /\ config = ExampleSnapshot => rendered.text[1] = ExampleText

\* C7 happens: a snapshot of two sections, the second without options, is rendered
C7_Witness ==
    /\ rendered.text # None
    /\ Len(config.sections) = 2
    /\ Len(config.sections[1].options) = 2
    /\ config.sections[2].options = <<>>

\* the client lists the type, or any type, with a positive quality
ClientAccepts(accept, mt) ==
    \E i \in DOMAIN accept : accept[i].q > 0 /\ accept[i].mt \in {mt, ANY_TYPE}

\* C8: on every 200 response of get_config and get_value the Content-Type is
\* the negotiated media type, text/plain or application/json, and the body is
\* what the renderer of that very type makes of the snapshot; no format
\* stands in for the other.
C8_ContentTypeMatchesBody ==
    (Handled /\ resp.status = OK) =>
        /\ resp.content_type \in {TEXT_PLAIN, APPLICATION_JSON}
        /\ resp.content_type = resp.return_type
        /\ ClientAccepts(resp.accept, resp.content_type)
        /\ resp.content_type = TEXT_PLAIN =>
             resp.body = _config_to_text(resp.config) /\ resp.body[1] = "["
        /\ resp.content_type = APPLICATION_JSON =>
             resp.body = _config_to_json(resp.config) /\ resp.body[1] = "{"

\* C8 happens: JSON is preferred to text and get_value answers in JSON
C8_Witness ==
    /\ resp.op = "get_value" /\ resp.status = OK
    /\ resp.accept = <<[mt |-> APPLICATION_JSON, q |-> 10], [mt |-> ANY_TYPE, q |-> 5]>>
    /\ resp.content_type = APPLICATION_JSON

\* C9: the JSON of a snapshot parses back to an object with a "sections"
\* array of {"name", "options"} objects, the options {"key", "value"}
\* objects, with the snapshot's names, keys and values in the same order.
C9_JsonRoundTrip ==
    rendered.json # None =>
        LET parsed == JsonLoads(rendered.json[1])
        IN  /\ parsed.ok
            /\ HasConfigShape(parsed.val)
            /\ ConfigOfJson(parsed.val) = config

\* C9 happens: a: {k1: v1, k2: v2} is rendered as JSON
C9_Witness ==
    /\ rendered.json # None
    /\ config = ExampleSnapshot

====
